---------------------------- MODULE Spec2Model ----------------------------
(***************************************************************************)
(* A model of the trustlines bridge validator: the TransferRecorder        *)
(* (confirmation_task_planner.py) and the confirmation Sender / Watcher    *)
(* pair (confirmation_sender.py).                                          *)
(***************************************************************************)
EXTENDS Integers, Sequences, FiniteSets, TLC

(***************************************************************************)
(* Bounds of the model.                                                    *)
(***************************************************************************)
MaxHash == 2
MaxTime == 2
MaxBlock == 3
MaxStream == 2

Hashes == 1..MaxHash
Times == 0..MaxTime

(***************************************************************************)
(* Program constants.                                                      *)
(***************************************************************************)
TRANSFER_EVENT_NAME == "Transfer"
CONFIRMATION_EVENT_NAME == "Confirmation"
COMPLETION_EVENT_NAME == "TransferCompleted"
UNKNOWN_EVENT_NAME == "Unknown"
EventNames ==
    {TRANSFER_EVENT_NAME, CONFIRMATION_EVENT_NAME, COMPLETION_EVENT_NAME,
     UNKNOWN_EVENT_NAME}

\* sync_persistence_time, as handed to TransferRecorder.__init__
sync_persistence_time == 1

\* max_reorg_depth, as handed to Watcher.__init__
max_reorg_depth == 1

\* The services main hands to start_services: the planner, the one that runs
\* ConfirmationSender.run, and one of the fetchers for the others.
PLANNER_SERVICE == "confirmation-task-planner"
SENDER_SERVICE == "confirmation-sender"
FETCHER_SERVICE == "fetch-home-bridge-events"
ServiceNames == {PLANNER_SERVICE, SENDER_SERVICE, FETCHER_SERVICE}

\* os.EX_SOFTWARE, the exit code of the hard exit; NoExit: still running.
EX_SOFTWARE == 70
NoExit == 0 - 1

\* config["foreign_bridge_contract_address"] and some other address
foreign_bridge_contract_address == "foreign bridge"
OTHER_ADDRESS == "elsewhere"

\* The Transfer log of the foreign chain behind a transfer hash: the hash
\* stands for one log, so its amount and its recipient are fixed.  A node
\* may hand out a log that does not go to the foreign bridge.
ForeignAmount(h) == IF h % 2 = 1 THEN 100 ELSE 200
ForeignTo(h) == IF h % 2 = 1 THEN foreign_bridge_contract_address ELSE OTHER_ADDRESS

\* An event as the fetchers deliver it: event.event, event.args.transferHash
\* and, for a Transfer, event.args.value (0 stands for an event without one)
\* and event.args.to.
Event(name, h, v) ==
    [event |-> name, transferHash |-> h, value |-> v,
     to |-> IF name = TRANSFER_EVENT_NAME THEN ForeignTo(h) ELSE ""]
TransferEvents == {Event(TRANSFER_EVENT_NAME, h, ForeignAmount(h)) : h \in Hashes}
Events ==
    TransferEvents
        \cup {Event(n, h, 0) : n \in EventNames \ {TRANSFER_EVENT_NAME}, h \in Hashes}

\* What the home bridge event fetcher is set up to fetch.
HomeEvents ==
    {Event(n, h, 0) : n \in {CONFIRMATION_EVENT_NAME, COMPLETION_EVENT_NAME},
                      h \in Hashes}

\* The event streams a fetcher may deliver: up to MaxStream events of S.
Streams(S) == UNION {[1..n -> S] : n \in 0..MaxStream}

VARIABLES
    \* TransferRecorder fields
    transfer_events,              \* dict: transfer hash -> Transfer event
    transfer_hashes,
    confirmation_hashes,
    completion_hashes,
    scheduled_hashes,
    confirmations_synced_until,
    completions_synced_until,
    \* the last recorder call: its name (with the time handed to
    \* get_unconfirmed_transfers and the event name handed to
    \* apply_sync_completed), its return value and whether it raised
    last_op,
    ret,
    err,
    \* history: how often get_unconfirmed_transfers returned each hash, and
    \* the hashes applied as Confirmation / TransferCompleted so far
    returned_count,
    applied_home,
    \* the planner's control flags and what holds on the home chain
    is_validating,
    is_balance_sufficient,
    validator_active,
    balance_ok,
    \* the confirmation task queue and the pending transaction queue
    task_queue,
    pending_queue,
    \* Sender: where it stands, its transfer_event and its transaction
    s_pc,
    s_event,
    s_tx,
    \* Watcher: where it stands, confirmation_threshold,
    \* oldest_pending_transaction and the exception that ended it
    w_pc,
    w_threshold,
    w_oldest,
    w_err,
    \* the home chain node: head, transaction pool, receipts (block numbers)
    node_head,
    node_mempool,
    node_receipts,
    \* history: whether the node ever dropped a transaction; the tasks taken,
    \* the calls of sendRawTransaction, the transactions the node took from
    \* them, the number of transactions the Watcher removed
    evicted,
    taken,
    attempts,
    submitted,
    n_removed,
    \* history: "put" once the Sender has put a transaction on the pending
    \* queue between the Watcher's peek and the arrival of the receipt, "got"
    \* once the Watcher has removed a transaction after such a put
    raced,
    \* the two event queues the fetchers fill (what is still to be applied)
    \* and, as history, the two streams as they were fetched
    transfer_event_queue,
    home_bridge_event_queue,
    foreign_log,
    home_log,
    \* the supervisor: the state of each service of the pool, where main
    \* stands, why stop was called and the exit code of the process
    service,
    main_pc,
    stop_cause,
    exit_code

recorder ==
    <<transfer_events, transfer_hashes, confirmation_hashes, completion_hashes,
      scheduled_hashes, confirmations_synced_until, completions_synced_until>>
history == <<returned_count, applied_home>>
planner == <<is_validating, is_balance_sufficient>>
chain == <<validator_active, balance_ok>>
queues == <<task_queue, pending_queue>>
sender == <<s_pc, s_event, s_tx>>
watcher == <<w_pc, w_threshold, w_oldest, w_err>>
node == <<node_head, node_mempool, node_receipts>>
sender_history == <<taken, attempts, submitted, n_removed, raced>>
replay == <<transfer_event_queue, home_bridge_event_queue, foreign_log, home_log>>
supervisor == <<service, main_pc, stop_cause, exit_code>>
vars ==
    <<recorder, last_op, ret, err, history, planner, chain, queues, sender,
      watcher, node, evicted, sender_history, replay, supervisor>>

Min(a, b) == IF a <= b THEN a ELSE b

\* All orders in which a Python set of hashes may be iterated.
Orders(S) ==
    {s \in [1..Cardinality(S) -> S] : \A i, j \in 1..Cardinality(S) : s[i] = s[j] => i = j}

Range(s) == {s[i] : i \in DOMAIN s}

NoOp == [name |-> "init", time |-> 0, event |-> ""]

\* TransferRecorder.__init__
RecorderInit ==
    /\ transfer_events = <<>>
    /\ transfer_hashes = {}
    /\ confirmation_hashes = {}
    /\ completion_hashes = {}
    /\ scheduled_hashes = {}
    /\ confirmations_synced_until = 0
    /\ completions_synced_until = 0
    /\ last_op = NoOp
    /\ ret = <<>>
    /\ err = "none"
    /\ returned_count = [h \in Hashes |-> 0]
    /\ applied_home = {}

\* The dict assignment transfer_events[transfer_hash] = event
DictPut(d, k, v) == [x \in (DOMAIN d) \cup {k} |-> IF x = k THEN v ELSE d[x]]

\* dict.pop(k, None) for every k of ks
DictDrop(d, ks) == [x \in (DOMAIN d) \ ks |-> d[x]]

\* The recorder object: the fields of self as one value.
self ==
    [transfer_events |-> transfer_events,
     transfer_hashes |-> transfer_hashes,
     confirmation_hashes |-> confirmation_hashes,
     completion_hashes |-> completion_hashes,
     scheduled_hashes |-> scheduled_hashes,
     confirmations_synced_until |-> confirmations_synced_until,
     completions_synced_until |-> completions_synced_until]

\* What a method call leaves: the object afterwards and the exception raised.
Outcome(obj, exception) == [self |-> obj, err |-> exception]

\* The fields of the recorder become those of obj.
Becomes(obj) ==
    /\ transfer_events' = obj.transfer_events
    /\ transfer_hashes' = obj.transfer_hashes
    /\ confirmation_hashes' = obj.confirmation_hashes
    /\ completion_hashes' = obj.completion_hashes
    /\ scheduled_hashes' = obj.scheduled_hashes
    /\ confirmations_synced_until' = obj.confirmations_synced_until
    /\ completions_synced_until' = obj.completions_synced_until

\* apply_sync_completed taking every timestamp, also one below the watermark.
apply_sync_completed_unchecked(r, event, timestamp) ==
    CASE event = TRANSFER_EVENT_NAME -> Outcome(r, "none")
      [] event = CONFIRMATION_EVENT_NAME ->
           Outcome([r EXCEPT !.confirmations_synced_until = timestamp], "none")
      [] event = COMPLETION_EVENT_NAME ->
           Outcome([r EXCEPT !.completions_synced_until = timestamp], "none")
      [] OTHER -> Outcome(r, "ValueError")

\* The body of apply_sync_completed, run on the recorder r.
apply_sync_completed_on(r, event, timestamp) ==
    CASE event = TRANSFER_EVENT_NAME -> Outcome(r, "none")
      [] event = CONFIRMATION_EVENT_NAME ->
           IF timestamp < r.confirmations_synced_until
           THEN Outcome(r, "ValueError")
           ELSE Outcome([r EXCEPT !.confirmations_synced_until = timestamp], "none")
      [] event = COMPLETION_EVENT_NAME ->
           IF timestamp < r.completions_synced_until
           THEN Outcome(r, "ValueError")
           ELSE Outcome([r EXCEPT !.completions_synced_until = timestamp], "none")
      [] OTHER -> Outcome(r, "ValueError")

\* TransferRecorder.apply_sync_completed(event, timestamp)
apply_sync_completed(event, timestamp) ==
    LET out == apply_sync_completed_on(self, event, timestamp)
    IN  /\ last_op' = [name |-> "apply_sync_completed", time |-> 0, event |-> event]
        /\ ret' = <<>>
        /\ Becomes(out.self)
        /\ err' = out.err
        /\ UNCHANGED history

\* apply_event with a Confirmation or TransferCompleted event flipping the
\* membership of its hash instead of adding it.
apply_event_toggling(r, event) ==
    LET transfer_hash == event.transferHash
        Flip(S) == IF transfer_hash \in S THEN S \ {transfer_hash}
                                         ELSE S \cup {transfer_hash}
    IN  CASE event.event = TRANSFER_EVENT_NAME ->
               Outcome([r EXCEPT
                          !.transfer_hashes = @ \cup {transfer_hash},
                          !.transfer_events = DictPut(@, transfer_hash, event)],
                       "none")
          [] event.event = CONFIRMATION_EVENT_NAME ->
               Outcome([r EXCEPT !.confirmation_hashes = Flip(@)], "none")
          [] event.event = COMPLETION_EVENT_NAME ->
               Outcome([r EXCEPT !.completion_hashes = Flip(@)], "none")
          [] OTHER -> Outcome(r, "ValueError")

\* apply_event with a Confirmation taking the hash out of the seen transfers.
apply_event_confirmation_discards(r, event) ==
    LET transfer_hash == event.transferHash
    IN  CASE event.event = TRANSFER_EVENT_NAME ->
               Outcome([r EXCEPT
                          !.transfer_hashes = @ \cup {transfer_hash},
                          !.transfer_events = DictPut(@, transfer_hash, event)],
                       "none")
          [] event.event = CONFIRMATION_EVENT_NAME ->
               Outcome([r EXCEPT
                          !.confirmation_hashes = @ \cup {transfer_hash},
                          !.transfer_hashes = @ \ {transfer_hash},
                          !.transfer_events = DictDrop(@, {transfer_hash})],
                       "none")
          [] event.event = COMPLETION_EVENT_NAME ->
               Outcome([r EXCEPT !.completion_hashes = @ \cup {transfer_hash}],
                       "none")
          [] OTHER -> Outcome(r, "ValueError")

\* apply_event recording the hash of an event of unknown name as completed
\* before it raises.
apply_event_records_unknown(r, event) ==
    LET transfer_hash == event.transferHash
    IN  CASE event.event = TRANSFER_EVENT_NAME ->
               Outcome([r EXCEPT
                          !.transfer_hashes = @ \cup {transfer_hash},
                          !.transfer_events = DictPut(@, transfer_hash, event)],
                       "none")
          [] event.event = CONFIRMATION_EVENT_NAME ->
               Outcome([r EXCEPT !.confirmation_hashes = @ \cup {transfer_hash}],
                       "none")
          [] event.event = COMPLETION_EVENT_NAME ->
               Outcome([r EXCEPT !.completion_hashes = @ \cup {transfer_hash}],
                       "none")
          [] OTHER ->
               Outcome([r EXCEPT !.completion_hashes = @ \cup {transfer_hash}],
                       "ValueError")

\* The body of apply_event, run on the recorder r.
apply_event_on(r, event) ==
    LET transfer_hash == event.transferHash
    IN  CASE event.event = TRANSFER_EVENT_NAME ->
               Outcome([r EXCEPT
                          !.transfer_hashes = @ \cup {transfer_hash},
                          !.transfer_events = DictPut(@, transfer_hash, event)],
                       "none")
          [] event.event = CONFIRMATION_EVENT_NAME ->
               Outcome([r EXCEPT !.confirmation_hashes = @ \cup {transfer_hash}],
                       "none")
          [] event.event = COMPLETION_EVENT_NAME ->
               Outcome([r EXCEPT !.completion_hashes = @ \cup {transfer_hash}],
                       "none")
          [] OTHER -> Outcome(r, "ValueError")

\* TransferRecorder.apply_event(event)
apply_event(event) ==
    LET out == apply_event_on(self, event)
    IN  /\ last_op' = [name |-> "apply_event", time |-> 0, event |-> ""]
        /\ ret' = <<>>
        /\ Becomes(out.self)
        /\ err' = out.err
        /\ applied_home' =
             IF event.event \in {CONFIRMATION_EVENT_NAME, COMPLETION_EVENT_NAME}
             THEN applied_home \cup {event.transferHash}
             ELSE applied_home
        /\ UNCHANGED returned_count

\* is_in_sync going by the later of the two watermarks.
is_in_sync_latest_watermark(current_time) ==
    LET synced_until ==
          IF confirmations_synced_until >= completions_synced_until
          THEN confirmations_synced_until
          ELSE completions_synced_until
    IN  current_time <= synced_until + sync_persistence_time

\* TransferRecorder.is_in_sync(current_time)
is_in_sync(current_time) ==
    LET synced_until == Min(confirmations_synced_until, completions_synced_until)
    IN  current_time <= synced_until + sync_persistence_time

\* The hashes of transfers seen in one of the two home-chain stages.
any_home_stage_seen ==
    transfer_hashes \cap (confirmation_hashes \cup completion_hashes)

\* The hashes clear_transfers drops: those seen in all three stages.
all_stages_seen == transfer_hashes \cap confirmation_hashes \cap completion_hashes

\* clear_transfers garbage-collecting the hash from the confirmation and
\* completion sets as well.
clear_transfers_all_sets ==
    /\ last_op' = [name |-> "clear_transfers", time |-> 0, event |-> ""]
    /\ ret' = <<>>
    /\ err' = "none"
    /\ transfer_hashes' = transfer_hashes \ all_stages_seen
    /\ scheduled_hashes' = scheduled_hashes \ all_stages_seen
    /\ confirmation_hashes' = confirmation_hashes \ all_stages_seen
    /\ completion_hashes' = completion_hashes \ all_stages_seen
    /\ transfer_events' = DictDrop(transfer_events, all_stages_seen)
    /\ UNCHANGED <<confirmations_synced_until, completions_synced_until, history>>

\* clear_transfers leaving the scheduled set alone.
clear_transfers_keeps_scheduled ==
    /\ last_op' = [name |-> "clear_transfers", time |-> 0, event |-> ""]
    /\ ret' = <<>>
    /\ err' = "none"
    /\ transfer_hashes' = transfer_hashes \ all_stages_seen
    /\ transfer_events' = DictDrop(transfer_events, all_stages_seen)
    /\ UNCHANGED <<scheduled_hashes, confirmation_hashes, completion_hashes,
                   confirmations_synced_until, completions_synced_until, history>>

\* clear_transfers leaving the transfer_events dict alone.
clear_transfers_keeps_events ==
    /\ last_op' = [name |-> "clear_transfers", time |-> 0, event |-> ""]
    /\ ret' = <<>>
    /\ err' = "none"
    /\ transfer_hashes' = transfer_hashes \ all_stages_seen
    /\ scheduled_hashes' = scheduled_hashes \ all_stages_seen
    /\ UNCHANGED <<transfer_events, confirmation_hashes, completion_hashes,
                   confirmations_synced_until, completions_synced_until, history>>

\* TransferRecorder.clear_transfers()
clear_transfers ==
    /\ last_op' = [name |-> "clear_transfers", time |-> 0, event |-> ""]
    /\ ret' = <<>>
    /\ err' = "none"
    /\ transfer_hashes' = transfer_hashes \ all_stages_seen
    /\ scheduled_hashes' = scheduled_hashes \ all_stages_seen
    /\ transfer_events' = DictDrop(transfer_events, all_stages_seen)
    /\ UNCHANGED <<confirmation_hashes, completion_hashes,
                   confirmations_synced_until, completions_synced_until, history>>

\* The set difference without the scheduled hashes taken out.
unconfirmed_ignoring_scheduled ==
    (transfer_hashes \ confirmation_hashes) \ completion_hashes

\* The set difference without the completed hashes taken out.
unconfirmed_ignoring_completions ==
    (transfer_hashes \ confirmation_hashes) \ scheduled_hashes

\* The set difference get_unconfirmed_transfers computes.
unconfirmed_transfer_hashes ==
    ((transfer_hashes \ confirmation_hashes) \ completion_hashes) \ scheduled_hashes

Bump(n) == IF n < 2 THEN n + 1 ELSE 2

\* get_unconfirmed_transfers marking the hashes as scheduled before it looks
\* at is_in_sync.
get_unconfirmed_transfers_marks_first(current_time) ==
    /\ last_op' = [name |-> "get_unconfirmed_transfers", time |-> current_time, event |-> ""]
    /\ err' = "none"
    /\ UNCHANGED <<transfer_events, transfer_hashes, confirmation_hashes,
                   completion_hashes, confirmations_synced_until,
                   completions_synced_until, applied_home>>
    /\ scheduled_hashes' = scheduled_hashes \cup unconfirmed_transfer_hashes
    /\ IF ~is_in_sync(current_time)
       THEN /\ ret' = <<>>
            /\ UNCHANGED returned_count
       ELSE /\ \E order \in Orders(unconfirmed_transfer_hashes) :
                 ret' = [i \in DOMAIN order |-> transfer_events[order[i]]]
            /\ returned_count' =
                 [h \in Hashes |-> IF h \in unconfirmed_transfer_hashes
                                   THEN Bump(returned_count[h])
                                   ELSE returned_count[h]]

\* TransferRecorder.get_unconfirmed_transfers(current_time)
get_unconfirmed_transfers(current_time) ==
    /\ last_op' = [name |-> "get_unconfirmed_transfers", time |-> current_time, event |-> ""]
    /\ err' = "none"
    /\ UNCHANGED <<transfer_events, transfer_hashes, confirmation_hashes,
                   completion_hashes, confirmations_synced_until,
                   completions_synced_until, applied_home>>
    /\ IF ~is_in_sync(current_time)
       THEN /\ ret' = <<>>
            /\ UNCHANGED <<scheduled_hashes, returned_count>>
       ELSE /\ scheduled_hashes' = scheduled_hashes \cup unconfirmed_transfer_hashes
            /\ \E order \in Orders(unconfirmed_transfer_hashes) :
                 ret' = [i \in DOMAIN order |-> transfer_events[order[i]]]
            /\ returned_count' =
                 [h \in Hashes |-> IF h \in unconfirmed_transfer_hashes
                                   THEN Bump(returned_count[h])
                                   ELSE returned_count[h]]

(***************************************************************************)
(* The home chain node, as the Sender and the Watcher see it through RPC.  *)
(***************************************************************************)

\* A signed confirmTransfer transaction: prepare_confirmation_transaction
\* builds it from the transfer event and the nonce.  Its content is its hash.
Tx(transfer_event, nonce) ==
    [transferHash |-> transfer_event.transferHash,
     amount |-> transfer_event.value,
     nonce |-> nonce]

NoEvent == Event("none", 0, 0)
NoTx == Tx(NoEvent, 0 - 1)
NoReceipt == 0 - 1

\* The number of mined transactions of the validator: its account nonce.
AccountNonce == Cardinality(DOMAIN node_receipts)

\* The end of the run of consecutive nonces the node holds from n on.
RECURSIVE PendingRun(_)
PendingRun(n) ==
    IF \E t \in node_mempool : t.nonce = n THEN PendingRun(n + 1) ELSE n

\* getTransactionCount(address) at the latest block: the mined count only.
get_latest_nonce == AccountNonce

\* Sender.get_next_nonce: getTransactionCount(address, "pending")
get_next_nonce == PendingRun(AccountNonce)

\* sendRawTransaction: the node takes a transaction unless its nonce is used
\* up or it already holds one of that nonce at the same gas price.
NodeAccepts(tx) ==
    /\ tx.nonce >= AccountNonce
    /\ \A t \in node_mempool : t.nonce # tx.nonce

\* getTransactionReceipt: the block number, or none (TransactionNotFound).
Receipt(tx) ==
    IF tx \in DOMAIN node_receipts THEN node_receipts[tx] ELSE NoReceipt

\* The node seals a block holding the next k executable transactions.
NodeMine ==
    /\ node_head < MaxBlock
    /\ node_head' = node_head + 1
    /\ \E k \in 0..(get_next_nonce - AccountNonce) :
         LET mined == {t \in node_mempool : t.nonce < AccountNonce + k}
         IN  /\ node_mempool' = node_mempool \ mined
             /\ node_receipts' =
                  [t \in (DOMAIN node_receipts) \cup mined |->
                     IF t \in mined THEN node_head + 1 ELSE node_receipts[t]]
    /\ UNCHANGED <<replay, supervisor, recorder, last_op, ret, err, history, planner, chain, queues,
                   sender, watcher, evicted, sender_history>>

\* The node drops a transaction from its pool.
NodeEvict ==
    /\ \E t \in node_mempool : node_mempool' = node_mempool \ {t}
    /\ evicted' = TRUE
    /\ UNCHANGED <<replay, supervisor, recorder, last_op, ret, err, history, planner, chain, queues,
                   sender, watcher, node_head, node_receipts, sender_history>>

(***************************************************************************)
(* The planner side: what feeds the confirmation task queue.               *)
(***************************************************************************)

\* The validator set or the validator's balance changes on the home chain.
ChainChange ==
    /\ \/ validator_active' = ~validator_active /\ UNCHANGED balance_ok
       \/ balance_ok' = ~balance_ok /\ UNCHANGED validator_active
    /\ UNCHANGED <<replay, supervisor, recorder, last_op, ret, err, history, planner, queues, sender,
                   watcher, node, evicted, sender_history>>

\* The status and balance watchers report over the control queue and the
\* planner updates its flags.
ControlUpdate ==
    /\ service[PLANNER_SERVICE] = "running"
    /\ is_validating' = validator_active
    /\ is_balance_sufficient' = balance_ok
    /\ UNCHANGED <<replay, supervisor, recorder, last_op, ret, err, history, chain, queues, sender,
                   watcher, node, evicted, sender_history>>

\* The planner applies a Transfer event of the foreign chain.
PlannerApplyTransfer ==
    /\ service[PLANNER_SERVICE] = "running"
    /\ \E e \in TransferEvents : apply_event(e)
    /\ UNCHANGED <<replay, supervisor, planner, chain, queues, sender, watcher,
                   node, evicted,
                   sender_history>>

\* The planner, validating and funded, asks the recorder for the unconfirmed
\* transfers and puts each on the confirmation task queue.
PlannerEmit ==
    /\ service[PLANNER_SERVICE] = "running"
    /\ is_validating
    /\ is_balance_sufficient
    /\ \E now \in Times : get_unconfirmed_transfers(now)
    /\ task_queue' = task_queue \o ret'
    /\ UNCHANGED <<replay, supervisor, planner, chain, pending_queue, sender,
                   watcher, node, evicted,
                   sender_history>>

(***************************************************************************)
(* Sender.send_confirmation_transactions, one action per suspension point. *)
(***************************************************************************)

\* The Sender taking its tasks from the queue of fetched Transfer events:
\* whatever was fetched, planned or not.
SenderGetUnplanned ==
    /\ s_pc = "get"
    /\ \E h \in transfer_hashes :
         /\ s_event' = transfer_events[h]
         /\ taken' = Append(taken, s_event')
    /\ s_pc' = "nonce"
    /\ UNCHANGED <<replay, supervisor, recorder, last_op, ret, err, history, planner, chain, queues,
                   s_tx, watcher, node, evicted, attempts, submitted, n_removed,
                   raced>>

\* transfer_event = self.transfer_event_queue.get()
SenderGet ==
    /\ s_pc = "get"
    /\ task_queue # <<>>
    /\ s_event' = Head(task_queue)
    /\ task_queue' = Tail(task_queue)
    /\ s_pc' = "nonce"
    /\ taken' = Append(taken, s_event')
    /\ UNCHANGED <<replay, supervisor, recorder, last_op, ret, err, history, planner, chain,
                   pending_queue, s_tx, watcher, node, evicted, attempts,
                   submitted, n_removed, raced>>

\* The nonce the Sender hands to prepare_confirmation_transaction.
SenderNonceValue == get_next_nonce

\* nonce = self.get_next_nonce(); transaction = prepare_confirmation_transaction
SenderNonce ==
    /\ s_pc = "nonce"
    /\ s_tx' = Tx(s_event, SenderNonceValue)
    /\ s_pc' = "send"
    /\ UNCHANGED <<replay, supervisor, recorder, last_op, ret, err, history, planner, chain, queues,
                   s_event, watcher, node, evicted, sender_history>>

\* getTransactionCount raises: the exception ends the Sender greenlet.
SenderNonceRaises ==
    /\ s_pc = "nonce"
    /\ s_pc' = "dead"
    /\ UNCHANGED <<replay, supervisor, recorder, last_op, ret, err, history, planner, chain, queues,
                   s_event, s_tx, watcher, node, evicted, sender_history>>

\* getTransactionCount(address, "pending") answered from a stale view of the
\* node: a count below the one the node would give now.
SenderNonceStale ==
    /\ s_pc = "nonce"
    /\ \E nonce \in 0..(get_next_nonce - 1) : s_tx' = Tx(s_event, nonce)
    /\ s_pc' = "send"
    /\ UNCHANGED <<replay, supervisor, recorder, last_op, ret, err, history, planner, chain, queues,
                   s_event, watcher, node, evicted, sender_history>>

\* A call of sendRawTransaction, with the validator's standing on the home
\* chain at that moment.
Attempt(tx) == [tx |-> tx, active |-> validator_active, funded |-> balance_ok]

\* Where send_confirmation_transaction puts the transaction on the queue.
PendingPutFront(q, tx) == <<tx>> \o q
PendingPutTwice(q, tx) == q \o <<tx, tx>>
PendingPut(q, tx) == Append(q, tx)

\* send_confirmation_transaction: sendRawTransaction, then the put on the
\* pending queue; a transaction the node refuses raises.
SenderSend ==
    /\ s_pc = "send"
    /\ attempts' = Append(attempts, Attempt(s_tx))
    /\ IF NodeAccepts(s_tx)
       THEN /\ node_mempool' = node_mempool \cup {s_tx}
            /\ pending_queue' = PendingPut(pending_queue, s_tx)
            /\ submitted' = Append(submitted, s_tx)
            /\ s_pc' = "get"
            /\ s_event' = NoEvent
            /\ s_tx' = NoTx
            /\ raced' = IF w_pc = "receipt" /\ raced = "no" THEN "put" ELSE raced
       ELSE /\ s_pc' = "dead"
            /\ UNCHANGED <<node_mempool, pending_queue, submitted, s_event, s_tx,
                           raced>>
    /\ UNCHANGED <<replay, supervisor, recorder, last_op, ret, err, history, planner, chain,
                   task_queue, watcher, node_head, node_receipts, evicted,
                   taken, n_removed>>

\* sendRawTransaction raises without the node having taken the transaction.
SenderSendRaises ==
    /\ s_pc = "send"
    /\ attempts' = Append(attempts, Attempt(s_tx))
    /\ s_pc' = "dead"
    /\ UNCHANGED <<replay, supervisor, recorder, last_op, ret, err, history, planner, chain, queues,
                   s_event, s_tx, watcher, node, evicted, taken, submitted,
                   n_removed, raced>>

(***************************************************************************)
(* Watcher.watch_pending_transactions / clear_confirmed_transactions.      *)
(***************************************************************************)

\* The loop head of clear_confirmed_transactions on queue q: leave the loop
\* on an empty queue, else peek and ask for the receipt.
WatcherLoop(q) ==
    IF q = <<>>
    THEN /\ w_pc' = "sleep"
         /\ w_oldest' = NoTx
    ELSE /\ w_pc' = "receipt"
         /\ w_oldest' = Head(q)

\* confirmation_threshold = self._rpc_latest_block() - self.max_reorg_depth
WatcherStart ==
    /\ w_pc = "sleep"
    /\ w_threshold' = node_head - max_reorg_depth
    /\ WatcherLoop(pending_queue)
    /\ UNCHANGED <<replay, supervisor, recorder, last_op, ret, err, history, planner, chain, queues,
                   sender, w_err, node, evicted, sender_history>>

\* receipt and receipt.blockNumber <= confirmation_threshold
IsConfirmedNoDepth(receipt, threshold) == receipt # NoReceipt
IsConfirmed(receipt, threshold) == receipt # NoReceipt /\ receipt <= threshold

\* self.pending_transaction_queue.get(): the item taken and the queue left.
PendingGetLast(q) == [item |-> q[Len(q)], rest |-> SubSeq(q, 1, Len(q) - 1)]
PendingGet(q) == [item |-> Head(q), rest |-> Tail(q)]

\* The receipt of the peeked transaction arrives: the assertion on it, the
\* comparison with the threshold, the get and the next turn of the loop.
WatcherReceipt ==
    /\ w_pc = "receipt"
    /\ LET receipt == Receipt(w_oldest)
       IN  IF receipt = NoReceipt
           THEN \* assert receipt.transactionHash == ... on None
                /\ w_pc' = "dead"
                /\ w_err' = "AttributeError"
                /\ raced' = IF raced = "put" THEN "no" ELSE raced
                /\ UNCHANGED <<pending_queue, w_oldest, n_removed>>
           ELSE IF IsConfirmed(receipt, w_threshold)
           THEN /\ pending_queue' = PendingGet(pending_queue).rest
                /\ n_removed' = n_removed + 1
                /\ raced' = IF raced = "put" THEN "got" ELSE raced
                /\ IF PendingGet(pending_queue).item # w_oldest
                   THEN \* assert confirmed_transaction is oldest_pending_transaction
                        /\ w_pc' = "dead"
                        /\ w_err' = "AssertionError"
                        /\ UNCHANGED w_oldest
                   ELSE /\ WatcherLoop(pending_queue')
                        /\ UNCHANGED w_err
           ELSE /\ w_pc' = "sleep"
                /\ w_oldest' = NoTx
                /\ raced' = IF raced = "put" THEN "no" ELSE raced
                /\ UNCHANGED <<pending_queue, w_err, n_removed>>
    /\ UNCHANGED <<replay, supervisor, recorder, last_op, ret, err, history, planner, chain,
                   task_queue, sender, w_threshold, node, evicted, taken,
                   attempts, submitted>>

(***************************************************************************)
(* The supervisor: main, stop and ConfirmationSender.run.                  *)
(***************************************************************************)

\* A service other than ConfirmationSender.run ends with an exception that
\* nothing handles.
ServiceRaises ==
    /\ main_pc # "exited"
    /\ \E n \in {PLANNER_SERVICE, FETCHER_SERVICE} :
         /\ service[n] = "running"
         /\ service' = [service EXCEPT ![n] = "failed"]
    /\ UNCHANGED <<replay, recorder, last_op, ret, err, history, planner, chain,
                   queues, sender, watcher, node, evicted, sender_history,
                   main_pc, stop_cause, exit_code>>

\* ConfirmationSender.run: gevent.joinall(greenlets), without raise_error,
\* returns once the Watcher and the Sender greenlet have both ended, however
\* they ended; the finally clause finds nothing left to kill.
RunReturns ==
    /\ service[SENDER_SERVICE] = "running"
    /\ s_pc = "dead"
    /\ w_pc = "dead"
    /\ service' = [service EXCEPT ![SENDER_SERVICE] = "returned"]
    /\ UNCHANGED <<replay, recorder, last_op, ret, err, history, planner, chain,
                   queues, sender, watcher, node, evicted, sender_history,
                   main_pc, stop_cause, exit_code>>

\* main: gevent.joinall(greenlets, raise_error=True) raises the exception of
\* a service that failed, and the except clause calls stop.
MainJoinRaises ==
    /\ main_pc = "joinall"
    /\ \E n \in ServiceNames : service[n] = "failed"
    /\ main_pc' = "stop"
    /\ stop_cause' = "error"
    /\ UNCHANGED <<replay, recorder, last_op, ret, err, history, planner, chain,
                   queues, sender, watcher, node, evicted, sender_history,
                   service, exit_code>>

\* SIGINT or SIGTERM (or the validator status watcher's callback): the
\* handler calls stop_pool.
StopRequested ==
    /\ main_pc = "joinall"
    /\ main_pc' = "stop"
    /\ stop_cause' = "request"
    /\ UNCHANGED <<replay, recorder, last_op, ret, err, history, planner, chain,
                   queues, sender, watcher, node, evicted, sender_history,
                   service, exit_code>>

\* What pool.kill() leaves of a greenlet: one that still runs is killed.
Killed(pc) == IF pc \in {"dead", "killed"} THEN pc ELSE "killed"

\* The pool is killed: every service that still runs ends, and the finally
\* clause of ConfirmationSender.run kills the Watcher and the Sender.
KillAll ==
    /\ service' = [n \in ServiceNames |->
                     IF service[n] = "running" THEN "killed" ELSE service[n]]
    /\ s_pc' = Killed(s_pc)
    /\ w_pc' = Killed(w_pc)

\* stop: pool.kill() and pool.join() finish within the timeout; stop returns,
\* main returns and the process exits with code 0.
StopInTime ==
    /\ main_pc = "stop"
    /\ KillAll
    /\ main_pc' = "exited"
    /\ exit_code' = 0
    /\ UNCHANGED <<replay, recorder, last_op, ret, err, history, planner, chain,
                   queues, s_event, s_tx, w_threshold, w_oldest, w_err, node,
                   evicted, sender_history, stop_cause>>

\* stop: the timeout fires first and os._exit(os.EX_SOFTWARE) ends the
\* process with everything in it.
StopTimesOut ==
    /\ main_pc = "stop"
    /\ KillAll
    /\ main_pc' = "exited"
    /\ exit_code' = EX_SOFTWARE
    /\ UNCHANGED <<replay, recorder, last_op, ret, err, history, planner, chain,
                   queues, s_event, s_tx, w_threshold, w_oldest, w_err, node,
                   evicted, sender_history, stop_cause>>

(***************************************************************************)
(* Specifications.                                                         *)
(***************************************************************************)

\* ConfirmationSender.__init__, Watcher.__init__ and a fresh home chain.
PipelineInit ==
    /\ is_validating = FALSE
    /\ is_balance_sufficient = FALSE
    /\ validator_active = TRUE
    /\ balance_ok = TRUE
    /\ task_queue = <<>>
    /\ pending_queue = <<>>
    /\ s_pc = "get"
    /\ s_event = NoEvent
    /\ s_tx = NoTx
    /\ w_pc = "sleep"
    /\ w_threshold = 0 - max_reorg_depth
    /\ w_oldest = NoTx
    /\ w_err = "none"
    /\ node_head = 0
    /\ node_mempool = {}
    /\ node_receipts = <<>>
    /\ evicted = FALSE
    /\ taken = <<>>
    /\ attempts = <<>>
    /\ submitted = <<>>
    /\ n_removed = 0
    /\ raced = "no"

\* The event queues before the fetchers have put anything on them.
ReplayInit ==
    /\ transfer_event_queue = <<>>
    /\ home_bridge_event_queue = <<>>
    /\ foreign_log = <<>>
    /\ home_log = <<>>

\* main up to gevent.joinall: every service started, nothing stopped.
SupervisorInit ==
    /\ service = [n \in ServiceNames |-> "running"]
    /\ main_pc = "joinall"
    /\ stop_cause = "none"
    /\ exit_code = NoExit

pipeline ==
    <<planner, chain, queues, sender, watcher, node, evicted, sender_history>>

ApplyEvent == (\E e \in Events : apply_event(e)) /\ UNCHANGED <<pipeline, replay, supervisor>>
ApplySyncCompleted ==
    (\E n \in EventNames, t \in Times : apply_sync_completed(n, t))
        /\ UNCHANGED <<pipeline, replay, supervisor>>
GetUnconfirmedTransfers ==
    (\E now \in Times : get_unconfirmed_transfers(now)) /\ UNCHANGED <<pipeline, replay, supervisor>>
ClearTransfers == clear_transfers /\ UNCHANGED <<pipeline, replay, supervisor>>

Init == RecorderInit /\ PipelineInit /\ ReplayInit /\ SupervisorInit

\* The fetchers have put their streams on the two event queues.
InitReplay ==
    /\ RecorderInit
    /\ PipelineInit
    /\ SupervisorInit
    /\ foreign_log \in Streams(TransferEvents)
    /\ home_log \in Streams(HomeEvents)
    /\ transfer_event_queue = foreign_log
    /\ home_bridge_event_queue = home_log

\* The next event of the transfer event queue is applied to the recorder.
ReplayTransfer ==
    /\ service[PLANNER_SERVICE] = "running"
    /\ transfer_event_queue # <<>>
    /\ apply_event(Head(transfer_event_queue))
    /\ transfer_event_queue' = Tail(transfer_event_queue)
    /\ UNCHANGED <<home_bridge_event_queue, foreign_log, home_log, pipeline,
                   supervisor>>

\* The next event of the home bridge event queue is applied to the recorder.
ReplayHome ==
    /\ service[PLANNER_SERVICE] = "running"
    /\ home_bridge_event_queue # <<>>
    /\ apply_event(Head(home_bridge_event_queue))
    /\ home_bridge_event_queue' = Tail(home_bridge_event_queue)
    /\ UNCHANGED <<transfer_event_queue, foreign_log, home_log, pipeline,
                   supervisor>>

\* Both streams replayed into a fresh recorder, interleaved in any way.
NextReplay ==
    \/ ReplayTransfer
    \/ ReplayHome

SpecReplay == InitReplay /\ [][NextReplay]_vars

\* The TransferRecorder under any sequence of calls.
Next ==
    \/ ApplyEvent
    \/ ApplySyncCompleted
    \/ GetUnconfirmedTransfers
    \/ ClearTransfers

Spec == Init /\ [][Next]_vars

\* get_unconfirmed_transfers called at a time when the recorder is in sync.
GetInSync ==
    /\ \E now \in Times : is_in_sync(now) /\ get_unconfirmed_transfers(now)
    /\ UNCHANGED <<pipeline, replay, supervisor>>

\* The recorder with a caller that keeps asking for the unconfirmed
\* transfers at times when the recorder is in sync.
SpecFair == Spec /\ WF_vars(GetInSync)

\* The Sender and the Watcher on one pending queue, fed by the planner, with
\* the home chain node.
NextPipe ==
    \/ ControlUpdate
    \/ PlannerApplyTransfer
    \/ PlannerEmit
    \/ SenderGet
    \/ SenderNonce
    \/ SenderNonceRaises
    \/ SenderSend
    \/ SenderSendRaises
    \/ WatcherStart
    \/ WatcherReceipt
    \/ NodeMine
    \/ NodeEvict

SpecPipe == Init /\ [][NextPipe]_vars

\* The Watcher greenlet is scheduled whenever it can run.
SpecPipeFair ==
    SpecPipe /\ WF_vars(WatcherStart) /\ WF_vars(WatcherReceipt)

\* The pipeline with a node that may answer getTransactionCount from a stale
\* view and whose RPC calls otherwise succeed.
NextStale ==
    \/ ControlUpdate
    \/ PlannerApplyTransfer
    \/ PlannerEmit
    \/ SenderGet
    \/ SenderNonce
    \/ SenderNonceStale
    \/ SenderSend
    \/ WatcherStart
    \/ WatcherReceipt
    \/ NodeMine

SpecStale == Init /\ [][NextStale]_vars

\* The planner and the Sender while the validator's standing changes.
NextDaemon ==
    \/ ChainChange
    \/ ControlUpdate
    \/ PlannerApplyTransfer
    \/ PlannerEmit
    \/ SenderGet
    \/ SenderNonce
    \/ SenderNonceRaises
    \/ SenderSend
    \/ SenderSendRaises

SpecDaemon == Init /\ [][NextDaemon]_vars

\* The daemon under its supervisor: the planner, the Sender and the Watcher
\* with the home chain node, the services that may fail, and main.
NextSupervised ==
    \/ ControlUpdate
    \/ PlannerApplyTransfer
    \/ PlannerEmit
    \/ SenderGet
    \/ SenderNonce
    \/ SenderNonceRaises
    \/ SenderSend
    \/ SenderSendRaises
    \/ WatcherStart
    \/ WatcherReceipt
    \/ NodeMine
    \/ ServiceRaises
    \/ RunReturns
    \/ MainJoinRaises
    \/ StopRequested
    \/ StopInTime
    \/ StopTimesOut

SpecSupervised == Init /\ [][NextSupervised]_vars

\* Every greenlet that can run is scheduled, and stop comes to an end.
SpecSupervisedFair ==
    /\ SpecSupervised
    /\ WF_vars(MainJoinRaises)
    /\ WF_vars(StopInTime \/ StopTimesOut)
    /\ WF_vars(RunReturns)
    /\ WF_vars(WatcherStart)
    /\ WF_vars(WatcherReceipt)
    /\ WF_vars(SenderGet)
    /\ WF_vars(SenderNonce \/ SenderNonceRaises)
    /\ WF_vars(SenderSend \/ SenderSendRaises)


(***************************************************************************)
(* Properties of the TransferRecorder.                                     *)
(***************************************************************************)
IsGetStep == last_op'.name = "get_unconfirmed_transfers"

\* C1: a get_unconfirmed_transfers(now) call made in sync returns exactly the
\* stored Transfer events of the hashes in seen_transfers and in none of
\* seen_confirmations, seen_completions and scheduled, adds exactly those
\* hashes to scheduled and changes nothing else of the recorder.
C1_ReturnsAndSchedulesUnconfirmed ==
    [][(IsGetStep /\ is_in_sync(last_op'.time)) =>
         LET U == {h \in transfer_hashes :
                     /\ h \notin confirmation_hashes
                     /\ h \notin completion_hashes
                     /\ h \notin scheduled_hashes}
         IN  /\ Len(ret') = Cardinality(U)
             /\ Range(ret') = {transfer_events[h] : h \in U}
             /\ scheduled_hashes' = scheduled_hashes \cup U
             /\ UNCHANGED <<transfer_events, transfer_hashes, confirmation_hashes,
                            completion_hashes, confirmations_synced_until,
                            completions_synced_until>>]_vars

\* C1 witness: an in-sync call has returned a transfer while holding back
\* another one that was already scheduled or seen on the home chain.
C1_Witness ==
    /\ last_op.name = "get_unconfirmed_transfers"
    /\ is_in_sync(last_op.time)
    /\ Len(ret) >= 1
    /\ \E h \in transfer_hashes : \A i \in DOMAIN ret : ret[i].transferHash # h

\* C2: over any sequence of recorder calls each transfer hash is returned by
\* get_unconfirmed_transfers at most once, also when its Transfer event is
\* applied again after clear_transfers dropped it; and a call that directly
\* follows another call (no event in between, time not going back) returns
\* an empty list.
C2_ReturnedAtMostOnce ==
    /\ [](\A h \in Hashes : returned_count[h] <= 1)
    /\ [][(/\ last_op.name = "get_unconfirmed_transfers"
           /\ IsGetStep
           /\ last_op'.time >= last_op.time) => ret' = <<>>]_vars

\* C2 witness: a hash that was returned, then dropped by clear_transfers and
\* applied again as a Transfer, has gone through another in-sync call.
C2_Witness ==
    /\ last_op.name = "get_unconfirmed_transfers"
    /\ is_in_sync(last_op.time)
    /\ \E h \in transfer_hashes :
         returned_count[h] = 1 /\ h \notin scheduled_hashes

\* C3: get_unconfirmed_transfers never returns a transfer whose hash has been
\* applied as a Confirmation or a TransferCompleted event, in whatever order
\* the events came and whether or not clear_transfers ran.
C3_NeverReturnsConfirmedOrCompleted ==
    last_op.name = "get_unconfirmed_transfers" =>
        \A i \in DOMAIN ret : ret[i].transferHash \notin applied_home

\* C3 witness: an in-sync call returned one transfer and held back a seen
\* transfer whose Confirmation or TransferCompleted had been applied.
C3_Witness ==
    /\ last_op.name = "get_unconfirmed_transfers"
    /\ Len(ret) >= 1
    /\ transfer_hashes \cap applied_home # {}
    /\ (transfer_hashes \cap applied_home) \cap scheduled_hashes = {}

\* C10: a get_unconfirmed_transfers(now) call made out of sync returns an
\* empty list and leaves the recorder as it was: no hash becomes scheduled.
C10_OutOfSyncChangesNothing ==
    [][(IsGetStep /\ ~is_in_sync(last_op'.time)) =>
         /\ ret' = <<>>
         /\ UNCHANGED recorder]_vars

\* C10 witness: an out-of-sync call has returned while unconfirmed transfers
\* are waiting, still unscheduled.
C10_Witness ==
    /\ last_op.name = "get_unconfirmed_transfers"
    /\ ~is_in_sync(last_op.time)
    /\ ret = <<>>
    /\ unconfirmed_transfer_hashes # {}

\* C11: is_in_sync(now) is true exactly when now is at most the smaller of the
\* two watermarks plus sync_persistence_time; so with one of the watermarks
\* still at its initial 0 the recorder is out of sync for every now greater
\* than sync_persistence_time, and a get_unconfirmed_transfers call made at
\* such a time has returned nothing.
C11_InSyncIffWithinPersistence ==
    /\ \A now \in Times :
         is_in_sync(now) <=>
            /\ now <= confirmations_synced_until + sync_persistence_time
            /\ now <= completions_synced_until + sync_persistence_time
    /\ \A now \in Times :
         (/\ confirmations_synced_until = 0 \/ completions_synced_until = 0
          /\ now > sync_persistence_time) => ~is_in_sync(now)
    /\ (/\ last_op.name = "get_unconfirmed_transfers"
        /\ confirmations_synced_until = 0 \/ completions_synced_until = 0
        /\ last_op.time > sync_persistence_time) => ret = <<>>

\* C11 witness: only the Confirmation watermark has moved, transfers are
\* waiting, and a call made later than sync_persistence_time returned nothing.
C11_Witness ==
    /\ last_op.name = "get_unconfirmed_transfers"
    /\ last_op.time > sync_persistence_time
    /\ confirmations_synced_until >= last_op.time
    /\ completions_synced_until = 0
    /\ unconfirmed_transfer_hashes # {}
    /\ ret = <<>>

\* C12: apply_sync_completed for Confirmation or TransferCompleted with a
\* timestamp below the watermark of that kind raises and leaves the recorder
\* as it was, while a timestamp equal to or above it is accepted and becomes
\* the watermark; along every trace neither watermark ever decreases, and a
\* call that raised has changed nothing.
C12_StaleSyncRejected ==
    /\ [](\A ts \in Times :
            LET conf == apply_sync_completed_on(self, CONFIRMATION_EVENT_NAME, ts)
                comp == apply_sync_completed_on(self, COMPLETION_EVENT_NAME, ts)
            IN  /\ IF ts < confirmations_synced_until
                   THEN conf.err = "ValueError" /\ conf.self = self
                   ELSE /\ conf.err = "none"
                        /\ conf.self = [self EXCEPT !.confirmations_synced_until = ts]
                /\ IF ts < completions_synced_until
                   THEN comp.err = "ValueError" /\ comp.self = self
                   ELSE /\ comp.err = "none"
                        /\ comp.self = [self EXCEPT !.completions_synced_until = ts])
    /\ [][/\ confirmations_synced_until' >= confirmations_synced_until
          /\ completions_synced_until' >= completions_synced_until
          /\ (last_op'.name = "apply_sync_completed" /\ err' = "ValueError")
                => UNCHANGED recorder]_vars

\* C12 witness: a Confirmation sync notification has just been refused; the
\* only way is a timestamp below the watermark, which stands above 0.
C12_Witness ==
    /\ last_op.name = "apply_sync_completed"
    /\ last_op.event = CONFIRMATION_EVENT_NAME
    /\ err = "ValueError"
    /\ confirmations_synced_until > 0

\* A hash clear_transfers has dropped: it was returned once, both home-chain
\* events are in, and it is no longer among the seen transfers.
Dropped(h) ==
    /\ returned_count[h] >= 1
    /\ h \in confirmation_hashes \cap completion_hashes
    /\ h \notin transfer_hashes

\* C13: in every reachable recorder state, after any sequence of recorder
\* calls, the scheduled set is a subset of the seen-transfers set.
C13_ScheduledSubsetOfSeen == scheduled_hashes \subseteq transfer_hashes

\* C13 witness: clear_transfers has dropped a scheduled hash while another
\* hash stays scheduled.
C13_Witness ==
    /\ last_op.name = "clear_transfers"
    /\ scheduled_hashes # {}
    /\ \E h \in Hashes : Dropped(h)

\* C14: in every reachable recorder state the keys of transfer_events are
\* exactly the seen transfer hashes, each key holding the Transfer event of
\* that hash, so every hash get_unconfirmed_transfers returns has its event.
C14_EventsKeyedBySeenTransfers ==
    /\ DOMAIN transfer_events = transfer_hashes
    /\ \A h \in transfer_hashes :
         /\ transfer_events[h].event = TRANSFER_EVENT_NAME
         /\ transfer_events[h].transferHash = h
    /\ \A i \in DOMAIN ret : ret[i] = transfer_events[ret[i].transferHash]

\* C14 witness: a call has returned an event by lookup after clear_transfers
\* had removed the key of another hash.
C14_Witness ==
    /\ last_op.name = "get_unconfirmed_transfers"
    /\ Len(ret) >= 1
    /\ \E h \in Hashes : Dropped(h) /\ h \notin DOMAIN transfer_events

\* C15: clear_transfers removes exactly the hashes seen as transfer,
\* confirmation and completion from seen_transfers, scheduled and the keys of
\* transfer_events, so that afterwards no key is in both home-chain sets; the
\* events of the other hashes, the confirmation and completion sets and both
\* watermarks stay as they were.
C15_ClearDropsFullySeen ==
    [][last_op'.name = "clear_transfers" =>
         LET D == {h \in transfer_hashes :
                     h \in confirmation_hashes /\ h \in completion_hashes}
         IN  /\ transfer_hashes' = transfer_hashes \ D
             /\ scheduled_hashes' = scheduled_hashes \ D
             /\ DOMAIN transfer_events' = (DOMAIN transfer_events) \ D
             /\ \A h \in DOMAIN transfer_events' :
                  /\ transfer_events'[h] = transfer_events[h]
                  /\ ~(h \in confirmation_hashes' /\ h \in completion_hashes')
             /\ UNCHANGED <<confirmation_hashes, completion_hashes,
                            confirmations_synced_until, completions_synced_until>>
             /\ err' = "none"]_vars

\* C15 witness: clear_transfers has dropped a hash seen in all three stages
\* and kept a transfer that is confirmed but not completed.
C15_Witness ==
    /\ last_op.name = "clear_transfers"
    /\ \E h \in Hashes : Dropped(h)
    /\ \E h \in transfer_hashes :
         h \in confirmation_hashes /\ h \notin completion_hashes

\* C16: applying the same Transfer, Confirmation or TransferCompleted event a
\* second time leaves the recorder as the first application left it.
C16_ApplyEventIdempotent ==
    \A e \in Events :
        e.event # UNKNOWN_EVENT_NAME =>
            LET once == apply_event_on(self, e)
                twice == apply_event_on(once.self, e)
            IN  /\ once.err = "none"
                /\ twice = once

\* C16 witness: an event has been applied, all three kinds have been seen,
\* and applying a Confirmation that is already in changes nothing.
C16_Witness ==
    /\ last_op.name = "apply_event"
    /\ err = "none"
    /\ transfer_hashes # {}
    /\ completion_hashes # {}
    /\ \E h \in confirmation_hashes :
         apply_event_on(self, Event(CONFIRMATION_EVENT_NAME, h, 0)).self = self

\* The hashes of the events of the given name in a stream.
HashesOf(stream, name) ==
    {stream[i].transferHash : i \in {j \in DOMAIN stream : stream[j].event = name}}

\* C17: when the foreign-chain stream and the home-chain stream have been
\* replayed into a fresh recorder, each in its own order and the two
\* interleaved in any way, the seen transfers, confirmations and completions
\* are the hashes of the Transfer, Confirmation and TransferCompleted events
\* of the streams: the same sets for every interleaving.
C17_ReplayIndependentOfInterleaving ==
    (transfer_event_queue = <<>> /\ home_bridge_event_queue = <<>>) =>
        /\ transfer_hashes = HashesOf(foreign_log, TRANSFER_EVENT_NAME)
        /\ confirmation_hashes = HashesOf(home_log, CONFIRMATION_EVENT_NAME)
        /\ completion_hashes = HashesOf(home_log, COMPLETION_EVENT_NAME)

\* C17 witness: a replay of a foreign stream and of a home stream of two
\* events is through, with a transfer that is also confirmed.
C17_Witness ==
    /\ transfer_event_queue = <<>>
    /\ home_bridge_event_queue = <<>>
    /\ Len(foreign_log) >= 1
    /\ Len(home_log) = 2
    /\ transfer_hashes \cap confirmation_hashes # {}

\* The event names the recorder knows.
KnownEventNames ==
    {TRANSFER_EVENT_NAME, CONFIRMATION_EVENT_NAME, COMPLETION_EVENT_NAME}

\* C23: on an event name other than Transfer, Confirmation and
\* TransferCompleted, apply_event and apply_sync_completed raise and leave
\* the recorder as it was; apply_sync_completed for Transfer raises nothing
\* and changes nothing.
C23_UnknownEventNameRejected ==
    /\ \A e \in Events :
         e.event \notin KnownEventNames =>
             apply_event_on(self, e) = Outcome(self, "ValueError")
    /\ \A n \in EventNames, t \in Times :
         n \notin KnownEventNames =>
             apply_sync_completed_on(self, n, t) = Outcome(self, "ValueError")
    /\ \A t \in Times :
         apply_sync_completed_on(self, TRANSFER_EVENT_NAME, t) = Outcome(self, "none")
    /\ (last_op.name = "apply_sync_completed"
            /\ last_op.event \notin KnownEventNames) => err = "ValueError"
    /\ (last_op.name = "apply_sync_completed"
            /\ last_op.event = TRANSFER_EVENT_NAME) => err = "none"

\* C23 witness: apply_sync_completed was called with an unknown event name
\* and raised, on a recorder that holds a scheduled transfer, a confirmation
\* and both watermarks above their initial value.
C23_Witness ==
    /\ last_op.name = "apply_sync_completed"
    /\ last_op.event = UNKNOWN_EVENT_NAME
    /\ err = "ValueError"
    /\ scheduled_hashes # {}
    /\ confirmation_hashes # {}
    /\ confirmations_synced_until > 0
    /\ completions_synced_until > 0

\* The hashes returned by the call that led to the next state.
ReturnedNow == {ret'[i].transferHash : i \in DOMAIN ret'}

\* C25: a transfer applied to the recorder whose hash never comes in a
\* Confirmation or TransferCompleted event is eventually returned by
\* get_unconfirmed_transfers, given calls at times when the recorder is in
\* sync; until then no call takes it out of the unconfirmed transfers, be it
\* a call while out of sync or a call of clear_transfers.
C25_NoUnconfirmedTransferLost ==
    /\ \A h \in Hashes :
         (h \in transfer_hashes /\ returned_count[h] = 0 /\ h \notin applied_home)
             ~> (returned_count[h] > 0 \/ h \in applied_home)
    /\ [][\A h \in unconfirmed_transfer_hashes :
            h \notin applied_home' =>
                \/ h \in unconfirmed_transfer_hashes'
                \/ /\ last_op'.name = "get_unconfirmed_transfers"
                   /\ is_in_sync(last_op'.time)
                   /\ h \in ReturnedNow]_vars

\* C25 witness: the last call, made at a time at which the recorder is in
\* sync only once both watermarks have risen, returned for the first time a
\* transfer that was never confirmed nor completed, after clear_transfers
\* had dropped another transfer that had been returned before.
C25_Witness ==
    /\ last_op.name = "get_unconfirmed_transfers"
    /\ last_op.time = MaxTime
    /\ \E h \in Hashes :
         /\ h \notin applied_home
         /\ returned_count[h] = 1
         /\ \E i \in DOMAIN ret : ret[i].transferHash = h
    /\ \E g \in applied_home :
         /\ g \notin transfer_hashes
         /\ returned_count[g] > 0

(***************************************************************************)
(* Properties of the planner, the Sender and the Watcher.                  *)
(***************************************************************************)

\* A receipt at or below the threshold: the transaction is buried.
Buried(tx, threshold) == Receipt(tx) # NoReceipt /\ Receipt(tx) <= threshold

Increasing(nonces) ==
    \A i, j \in DOMAIN nonces : i < j => nonces[i] < nonces[j]

AttemptNonces == [i \in DOMAIN attempts |-> attempts[i].tx.nonce]
SubmittedNonces == [i \in DOMAIN submitted |-> submitted[i].nonce]

\* C4 as stated: whenever the Sender calls sendRawTransaction the validator
\* is an active bridge validator and sufficiently funded.
C4_SubmitsOnlyWhenActiveAndFunded ==
    \A i \in DOMAIN attempts : attempts[i].active /\ attempts[i].funded

\* C4 amended: the Sender does not look at the validator's standing; every
\* transaction it hands to sendRawTransaction is for the task it took from
\* the confirmation task queue, a task the planner had emitted, whether or
\* not the validator is still active and funded at that moment.
C4_SubmitsOnlyPlannedTasks ==
    \A i \in DOMAIN attempts :
        /\ attempts[i].tx.transferHash = taken[i].transferHash
        /\ returned_count[taken[i].transferHash] >= 1

\* C4 witness: the Sender has called sendRawTransaction for a planned task
\* while the validator was inactive or underfunded.
C4_Witness ==
    \E i \in DOMAIN attempts :
        /\ ~(attempts[i].active /\ attempts[i].funded)
        /\ returned_count[attempts[i].tx.transferHash] >= 1

\* The tasks the Sender is through with: all it took, less the one in hand.
TasksHandled == IF s_pc \in {"nonce", "send"} THEN Len(taken) - 1 ELSE Len(taken)

C6_NoncesStrictlyIncrease == Increasing(AttemptNonces)

\* C6 amended: the nonces of the submitted transactions strictly increase as
\* long as the pending count the node reports counts every transaction
\* submitted before, that is, as long as the node has dropped none.
C6_NoncesIncreaseWhileNoneDropped == ~evicted => Increasing(AttemptNonces)

\* C6 witness: two transactions were submitted, the second with the greater
\* nonce, and the node dropped none.
C6_Witness ==
    /\ ~evicted
    /\ Len(attempts) = 2
    /\ attempts[1].tx.nonce < attempts[2].tx.nonce

\* C7 as stated: once a Watcher pass is over, no transaction left anywhere in
\* the pending queue has a receipt at or below the threshold of that pass,
\* and a transaction is removed only with such a receipt.
C7_RemovedIffBuriedAnywhere ==
    /\ [](w_pc # "receipt" =>
            \A i \in DOMAIN pending_queue : ~Buried(pending_queue[i], w_threshold))
    /\ [][Len(pending_queue') < Len(pending_queue) =>
            Buried(Head(pending_queue), w_threshold)]_vars

\* C7 amended: a Watcher pass removes the transaction at the front of the
\* queue if and only if it has a receipt at or below the threshold, and
\* stops at the first front transaction without one; transactions behind it
\* stay, whatever their receipts.
C7_FrontRemovedIffBuried ==
    /\ [](w_pc # "receipt" =>
            \/ pending_queue = <<>>
            \/ ~Buried(Head(pending_queue), w_threshold))
    /\ [][Len(pending_queue') < Len(pending_queue) =>
            /\ pending_queue' = Tail(pending_queue)
            /\ Buried(Head(pending_queue), w_threshold)]_vars

\* C7 witness: a pass has removed a buried transaction and stopped at the
\* next one, which is not buried.
C7_Witness ==
    /\ w_pc = "sleep"
    /\ n_removed >= 1
    /\ pending_queue # <<>>
    /\ Receipt(Head(pending_queue)) > w_threshold

\* The pending queue holds the submitted transactions, in submission order,
\* less the ones removed, which are the earliest.
PendingIsFifo ==
    pending_queue = SubSeq(submitted, n_removed + 1, Len(submitted))

\* C8 as stated: the pending queue is in submission order, submission order
\* is increasing nonce order, and the Watcher removes in that order.
C8_FifoInNonceOrder == PendingIsFifo /\ Increasing(SubmittedNonces)

\* C8 amended: the pending queue is in submission order and the Watcher
\* removes in that order, never a transaction before one submitted earlier;
\* submission order is increasing nonce order as long as the node has dropped
\* no transaction.
C8_FifoInSubmissionOrder ==
    PendingIsFifo /\ (~evicted => Increasing(SubmittedNonces))

\* C8 witness: of two submitted transactions the Watcher has removed the
\* first, and the second is still in the queue.
C8_Witness ==
    /\ Len(submitted) = 2
    /\ n_removed = 1
    /\ pending_queue = <<submitted[2]>>

\* C9: under fair scheduling of the Watcher, a pending transaction is removed
\* from the queue once it and every transaction submitted before it has a
\* receipt at or below head - max_reorg_depth.
C9_BuriedEventuallyRemoved ==
    \A i \in 1..MaxHash :
        (/\ i <= Len(submitted)
         /\ \A j \in 1..i : Buried(submitted[j], node_head - max_reorg_depth))
            ~> (n_removed >= i)

\* C18: no confirmation transaction is built, submitted or put on the pending
\* queue for a task whose Transfer event does not go to the foreign bridge
\* contract address.
C18_MisaddressedTransferDropped ==
    \A i \in DOMAIN taken :
        taken[i].to # foreign_bridge_contract_address =>
            /\ s_tx.transferHash # taken[i].transferHash
            /\ \A j \in DOMAIN attempts :
                 attempts[j].tx.transferHash # taken[i].transferHash
            /\ \A j \in DOMAIN pending_queue :
                 pending_queue[j].transferHash # taken[i].transferHash

\* C21: when the oldest pending transaction has no receipt yet, the Watcher
\* pass ends without error: the Watcher goes back to sleep for the next pass
\* and the pending queue keeps that transaction and all later ones.
C21_MissingReceiptEndsPassQuietly ==
    [][(w_pc = "receipt" /\ Receipt(w_oldest) = NoReceipt /\ w_pc' # w_pc) =>
           /\ w_pc' = "sleep"
           /\ w_err' = "none"
           /\ pending_queue' = pending_queue]_vars

\* C22: when sendRawTransaction refuses a confirmation transaction because
\* its nonce is too low, the Sender keeps running and keeps the task, to
\* refetch the nonce and resubmit.
C22_NonceTooLowRetried ==
    [][(s_pc = "send" /\ s_tx.nonce < AccountNonce /\ s_pc' # s_pc) =>
           /\ s_pc' # "dead"
           /\ s_event' = s_event]_vars

\* C24: however the Sender and the Watcher interleave, the transaction at
\* the head of the pending queue while the Watcher waits for a receipt is the
\* one it peeked, so the transaction it removes is the one whose receipt it
\* checked, and the assertion on the removed item never fails.
C24_RemovesWhatItPeeked ==
    /\ w_err # "AssertionError"
    /\ w_pc = "receipt" =>
         /\ pending_queue # <<>>
         /\ PendingGet(pending_queue).item = w_oldest

\* C24 witness: the Watcher has removed a transaction after the Sender had
\* put another one on the queue between the peek and the arrival of the
\* receipt, and went on without error.
C24_Witness ==
    /\ raced = "got"
    /\ n_removed >= 1
    /\ w_err = "none"
    /\ Len(submitted) >= 2

(***************************************************************************)
(* Properties of the supervisor.                                           *)
(***************************************************************************)

\* A task has ended with an exception that nothing handled.
TaskFailed ==
    \/ \E n \in ServiceNames : service[n] = "failed"
    \/ s_pc = "dead"
    \/ w_pc = "dead"

\* The process has exited and no task runs any more.
Terminated ==
    /\ exit_code # NoExit
    /\ \A n \in ServiceNames : service[n] # "running"
    /\ s_pc \in {"dead", "killed"}
    /\ w_pc \in {"dead", "killed"}

\* C19: once any task, the Sender loop and the Watcher loop included, has
\* ended with an unhandled exception, the supervisor cancels the remaining
\* tasks and the daemon terminates, cleanly or by the forced exit: no task
\* keeps running.
C19_FailureStopsDaemon == TaskFailed ~> Terminated

\* C20: the process exits with code 0 only after a requested shutdown; when
\* the daemon stopped because a task raised, the exit code is not 0, whether
\* or not the tasks were cleaned up within the timeout.
C20_ExitCodeTellsFatalError ==
    main_pc = "exited" =>
        /\ exit_code = 0 => stop_cause = "request"
        /\ stop_cause = "error" => exit_code # 0

=============================================================================
